---- MODULE Spec2Model ----
(***************************************************************************)
(* LoadingViewModel (ui/viewmodel/loading_view.cpp): the view model that   *)
(* turns the node's and the wallet's done/total counters into a ratcheted  *)
(* progress fraction, a progress message with a time estimate, and error   *)
(* and completion signals.                                                 *)
(*                                                                         *)
(* Doubles are modelled as exact extended rationals: a record [k, n, d]    *)
(* with k in {"fin", "zero", "inf", "nan"}.  A finite non-zero value is    *)
(* n/d in lowest terms with d > 0; for a zero or an infinity n is the sign *)
(* (1 or -1) and d is 1; a NaN has n = 0 and d = 1.  The values the model  *)
(* reaches are quotients of small integers, far from the rounding and      *)
(* range limits of an IEEE double.                                         *)
(***************************************************************************)
EXTENDS Integers, Sequences, FiniteSets, TLC

\* ------------------------------------------------------------------ bounds
\* A source reports done in 0 .. MaxUnits, against a total that is still
\* unknown (0) or MaxUnits.
MaxUnits == 1
\* resetWallet() is invoked at most MaxResets times.
MaxResets == 2
\* With arbitrary counters, a source reports done in -2 .. MaxSelUnits + 1
\* against a total of -1, 0 or MaxSelUnits.
MaxSelUnits == 2

\* ------------------------------------------------------- program constants
kMaxEstimate == 2 * 60 * 60
kSecondsInMinute == 60

\* --------------------------------------------------------- double numbers
Abs(i) == IF i < 0 THEN -i ELSE i

Sgn(i) == IF i < 0 THEN -1 ELSE 1

RECURSIVE GCD(_, _)
GCD(a, b) == IF b = 0 THEN a ELSE GCD(b, a % b)

DNaN == [k |-> "nan", n |-> 0, d |-> 1]

DZero(s) == [k |-> "zero", n |-> s, d |-> 1]

DInf(s) == [k |-> "inf", n |-> s, d |-> 1]

\* the double nearest to num/den, den > 0 (an exact zero is +0.0)
DFin(num, den) ==
    IF num = 0 THEN DZero(1)
    ELSE LET g == GCD(Abs(num), den)
         IN  [k |-> "fin", n |-> num \div g, d |-> den \div g]

DInt(i) == DFin(i, 1)

\* a < b on doubles; every comparison with a NaN is false
DLt(a, b) ==
    IF a.k = "nan" \/ b.k = "nan" THEN FALSE
    ELSE IF a.k = "inf" THEN a.n < 0 /\ ~(b.k = "inf" /\ b.n < 0)
    ELSE IF b.k = "inf" THEN b.n > 0
    ELSE LET an == IF a.k = "zero" THEN 0 ELSE a.n
             bn == IF b.k = "zero" THEN 0 ELSE b.n
         IN  an * b.d < bn * a.d

DGt(a, b) == DLt(b, a)

\* a == b on doubles (+0.0 == -0.0, NaN equals nothing)
DEq(a, b) ==
    IF a.k = "nan" \/ b.k = "nan" THEN FALSE
    ELSE IF a.k = "zero" /\ b.k = "zero" THEN TRUE
    ELSE a = b

DAdd(a, b) ==
    IF a.k = "nan" \/ b.k = "nan" THEN DNaN
    ELSE IF a.k = "inf" THEN (IF b.k = "inf" /\ b.n # a.n THEN DNaN ELSE a)
    ELSE IF b.k = "inf" THEN b
    ELSE IF a.k = "zero" /\ b.k = "zero"
         THEN DZero(IF a.n < 0 /\ b.n < 0 THEN -1 ELSE 1)
    ELSE IF a.k = "zero" THEN b
    ELSE IF b.k = "zero" THEN a
    ELSE DFin(a.n * b.d + b.n * a.d, a.d * b.d)

DNeg(a) == IF a.k = "nan" THEN DNaN ELSE [a EXCEPT !.n = -a.n]

DSub(a, b) == DAdd(a, DNeg(b))

DDiv(a, b) ==
    IF a.k = "nan" \/ b.k = "nan" THEN DNaN
    ELSE IF a.k = "inf" THEN (IF b.k = "inf" THEN DNaN
                              ELSE DInf(Sgn(a.n) * Sgn(b.n)))
    ELSE IF b.k = "inf" THEN DZero(Sgn(a.n) * Sgn(b.n))
    ELSE IF b.k = "zero" THEN (IF a.k = "zero" THEN DNaN
                               ELSE DInf(Sgn(a.n) * Sgn(b.n)))
    ELSE IF a.k = "zero" THEN DZero(Sgn(a.n) * Sgn(b.n))
    ELSE DFin(a.n * b.d * Sgn(b.n), a.d * Abs(b.n))

\* ceil() of <cmath>
DCeil(a) ==
    IF a.k # "fin" THEN a
    ELSE LET c == -((-a.n) \div a.d)
         IN  IF c = 0 THEN DZero(Sgn(a.n)) ELSE DInt(c)

\* the raw progress without std::min(1., x)
DMin1_Uncapped(x) == x

\* std::min(1., x): x when x < 1., else 1.
DMin1(x) == IF DLt(x, DInt(1)) THEN x ELSE DInt(1)

\* done / static_cast<double>(total), total > 0
Ratio(done, total) == DFin(done, total)

\* " %.2lf%%" of progress * 100 for 0 < progress <= 1: the number of
\* hundredths of a percent, rounded to nearest
Percent(progress) ==
    (2 * 10000 * progress.n + progress.d) \div (2 * progress.d)

\* ------------------------------------------------------------------ inputs
Dones == 0 .. MaxUnits

Totals == {0, MaxUnits}

SelDones == -2 .. MaxSelUnits + 1

SelTotals == {-1, 0, MaxSelUnits}

\* readings of getTimestamp(), in seconds: a reading and one more than
\* kMaxEstimate later
ClockValues == {0, kMaxEstimate + 1}

\* beam::wallet::ErrorType: the four kinds the handler names, and one of the
\* kinds it does not name
ErrorTypes == {"NodeProtocolIncompatible", "ConnectionAddrInUse",
               "ConnectionRefused", "HostResolvedError",
               "ConnectionTimedOut"}

\* ------------------------------------------------------------------ state
VARIABLES
    m_progress,             \* double
    m_nodeTotal, m_nodeDone,
    m_total, m_done,
    m_hasLocalNode,
    m_isCreating,
    m_progressMessage,
    m_lastProgress,         \* double, not set by the constructor
    m_lastEstimateSeconds,  \* double, not set by the constructor
    m_lastUpdateTimestamp,  \* Timestamp, not set by the constructor
    runLocalNode,           \* AppModel settings: getRunLocalNode()
    ndebug,                 \* the build defines NDEBUG (assert is a no-op)
    connections,            \* signals of the wallet model and of the node
                            \* that are connected to a slot of this object
    resetConnections,       \* number of connections of AppModel's
                            \* walletReseted() to onWalletReseted()
    aborted,                \* the process was ended by a failed assert
    last                    \* what the most recent call did: the signals it
                            \* emitted and the locals of updateProgress()

vars == <<m_progress, m_nodeTotal, m_nodeDone, m_total, m_done,
          m_hasLocalNode, m_isCreating, m_progressMessage, m_lastProgress,
          m_lastEstimateSeconds, m_lastUpdateTimestamp, runLocalNode, ndebug,
          connections, resetConnections, aborted, last>>

\* ---------------------------------------------------------------- signals
Signal(name) == [sig |-> name, title |-> "", desc |-> <<>>]

SyncCompleted == Signal("syncCompleted")

ProgressChanged == Signal("progressChanged")

ProgressMessageChanged == Signal("progressMessageChanged")

IsCreatingChanged == Signal("isCreatingChanged")

WalletReseted == Signal("walletReseted")

\* WalletModel::GetErrorString(error): the description text of the error kind
GetErrorString(error) == <<"ErrorString", error>>

WalletError(title, error) ==
    [sig |-> "walletError", title |-> title, desc |-> GetErrorString(error)]

\* --------------------------------------------------------------- messages
\* A progress message: the translated text with its %d arguments, then
\* " %.2lf%%" (pct, in hundredths of a percent; -1 when absent) and the
\* estimate " Estimate time: <value> <units>" (units "" when absent).
Message(text, done, total, pct, value, units) ==
    [text |-> text, done |-> done, total |-> total, pct |-> pct,
     value |-> value, units |-> units]

EmptyMessage == Message("", 0, 0, -1, DZero(1), "")

\* ------------------------------------------------------- updateProgress()
\* the selector with the download still active at nodeDone = nodeTotal
SelectPhase_NodeInclusive(bLocalNode, nodeDone, nodeTotal, done, total) ==
    IF bLocalNode /\ (nodeTotal = 0 \/ nodeDone <= nodeTotal)
    THEN [phase    |-> "Downloading",
          progress |-> IF nodeTotal > 0
                       THEN DMin1(Ratio(nodeDone, nodeTotal))
                       ELSE DZero(1),
          text     |-> "loading-view-download-blocks",
          done     |-> 0,
          total    |-> 0,
          emitted  |-> <<>>]
    ELSE [phase    |-> "Scanning",
          progress |-> IF total > 0 THEN DMin1(Ratio(done, total))
                       ELSE DZero(1),
          text     |-> IF done < total THEN "loading-view-scaning-utxo"
                       ELSE "",
          done     |-> IF done < total THEN done ELSE 0,
          total    |-> IF done < total THEN total ELSE 0,
          emitted  |-> IF done < total THEN <<>> ELSE <<SyncCompleted>>]

\* the selector completing only once done exceeds total
SelectPhase_CompleteWhenOver(bLocalNode, nodeDone, nodeTotal, done, total) ==
    IF bLocalNode /\ (nodeTotal = 0 \/ nodeDone < nodeTotal)
    THEN [phase    |-> "Downloading",
          progress |-> IF nodeTotal > 0
                       THEN DMin1(Ratio(nodeDone, nodeTotal))
                       ELSE DZero(1),
          text     |-> "loading-view-download-blocks",
          done     |-> 0,
          total    |-> 0,
          emitted  |-> <<>>]
    ELSE [phase    |-> "Scanning",
          progress |-> IF total > 0 THEN DMin1(Ratio(done, total))
                       ELSE DZero(1),
          text     |-> IF done <= total THEN "loading-view-scaning-utxo"
                       ELSE "",
          done     |-> IF done <= total THEN done ELSE 0,
          total    |-> IF done <= total THEN total ELSE 0,
          emitted  |-> IF done <= total THEN <<>> ELSE <<SyncCompleted>>]

\* lines 83-107: the phase, the raw progress, the message text and the
\* completion signal
SelectPhase(bLocalNode, nodeDone, nodeTotal, done, total) ==
    IF bLocalNode /\ (nodeTotal = 0 \/ nodeDone < nodeTotal)
    THEN [phase    |-> "Downloading",
          progress |-> IF nodeTotal > 0
                       THEN DMin1(Ratio(nodeDone, nodeTotal))
                       ELSE DZero(1),
          text     |-> "loading-view-download-blocks",
          done     |-> 0,
          total    |-> 0,
          emitted  |-> <<>>]
    ELSE [phase    |-> "Scanning",
          progress |-> IF total > 0 THEN DMin1(Ratio(done, total))
                       ELSE DZero(1),
          text     |-> IF done < total THEN "loading-view-scaning-utxo"
                       ELSE "",
          done     |-> IF done < total THEN done ELSE 0,
          total    |-> IF done < total THEN total ELSE 0,
          emitted  |-> IF done < total THEN <<>> ELSE <<SyncCompleted>>]

\* Timestamp is unsigned 64-bit: now - m_lastUpdateTimestamp wraps to a
\* value above kMaxEstimate when now < m_lastUpdateTimestamp (all readings
\* are far below 2^64 - kMaxEstimate).
GetSecondsFromLastUpdate(now) ==
    IF now < m_lastUpdateTimestamp
         \/ now - m_lastUpdateTimestamp > kMaxEstimate
    THEN kMaxEstimate
    ELSE now - m_lastUpdateTimestamp

\* getEstimateStr() dampening from a ratio of 2 on (>= instead of >)
GetEstimateStr_DampenFromTwo(secondsFromLastUpdate, progress) ==
    LET rate == DSub(progress, m_lastProgress)
        raw  == DDiv(DInt(secondsFromLastUpdate), rate)
        ratio == DDiv(raw, m_lastEstimateSeconds)
        estimateSeconds ==
            IF DGt(ratio, DInt(2)) \/ DEq(ratio, DInt(2))
            THEN DDiv(DAdd(raw, m_lastEstimateSeconds), DInt(2))
            ELSE raw
        minutes == DGt(estimateSeconds, DInt(kSecondsInMinute))
    IN  [rate  |-> rate,
         m_lastEstimateSeconds |-> estimateSeconds,
         value |-> IF minutes
                   THEN DCeil(DDiv(estimateSeconds, DInt(kSecondsInMinute)))
                   ELSE IF DGt(estimateSeconds, DZero(1))
                        THEN DCeil(estimateSeconds)
                        ELSE DInt(1),
         units |-> IF minutes THEN "loading-view-estimate-minutes"
                   ELSE "loading-view-estimate-seconds"]

GetEstimateStr(secondsFromLastUpdate, progress) ==
    LET rate == DSub(progress, m_lastProgress)
        raw  == DDiv(DInt(secondsFromLastUpdate), rate)
        estimateSeconds ==
            IF DGt(DDiv(raw, m_lastEstimateSeconds), DInt(2))
            THEN DDiv(DAdd(raw, m_lastEstimateSeconds), DInt(2))
            ELSE raw
        minutes == DGt(estimateSeconds, DInt(kSecondsInMinute))
    IN  [rate  |-> rate,
         m_lastEstimateSeconds |-> estimateSeconds,
         value |-> IF minutes
                   THEN DCeil(DDiv(estimateSeconds, DInt(kSecondsInMinute)))
                   ELSE IF DGt(estimateSeconds, DZero(1))
                        THEN DCeil(estimateSeconds)
                        ELSE DInt(1),
         units |-> IF minutes THEN "loading-view-estimate-minutes"
                   ELSE "loading-view-estimate-seconds"]

\* setProgress() without the ratchet
SetProgress_NoRatchet(value) ==
    IF ~DEq(value, m_progress)
    THEN [m_lastProgress |-> m_progress, m_progress |-> value,
          emitted |-> <<ProgressChanged>>]
    ELSE [m_lastProgress |-> m_lastProgress, m_progress |-> m_progress,
          emitted |-> <<>>]

SetProgress(value) ==
    IF DGt(value, m_progress)
    THEN [m_lastProgress |-> m_progress, m_progress |-> value,
          emitted |-> <<ProgressChanged>>]
    ELSE [m_lastProgress |-> m_lastProgress, m_progress |-> m_progress,
          emitted |-> <<>>]

\* setProgressMessage() notifying on every call
SetProgressMessage_AlwaysNotify(value) ==
    [m_progressMessage |-> value, emitted |-> <<ProgressMessageChanged>>]

SetProgressMessage(value) ==
    IF m_progressMessage # value
    THEN [m_progressMessage |-> value, emitted |-> <<ProgressMessageChanged>>]
    ELSE [m_progressMessage |-> m_progressMessage, emitted |-> <<>>]

\* The record of a call in last: op names the slot or method and err its
\* error kind; emitted lists the signals it emitted, in order; upd, phase,
\* progress, s, proj and rate are set by updateProgress() (s the elapsed
\* seconds, proj whether getEstimateStr() ran, rate its divisor); setProgress
\* and setMessage tell that the setter was called, with progress and message
\* as the argument.
NoCall == [op |-> "", err |-> "", emitted |-> <<>>,
           upd |-> FALSE, phase |-> "", progress |-> DZero(1), s |-> 0,
           proj |-> FALSE, rate |-> DZero(1),
           setProgress |-> FALSE, setMessage |-> FALSE,
           message |-> EmptyMessage]

\* updateProgress() with the counters as given, at clock reading now: the
\* new values of the fields it writes, and its record in last
UpdateProgress(nodeDone, nodeTotal, done, total, now) ==
    LET sel  == SelectPhase(runLocalNode, nodeDone, nodeTotal, done, total)
        s    == GetSecondsFromLastUpdate(now)
        proj == DGt(sel.progress, DZero(1))
        est  == GetEstimateStr(s, sel.progress)
        progressMessage ==
            IF proj
            THEN Message(sel.text, sel.done, sel.total,
                         Percent(sel.progress), est.value, est.units)
            ELSE Message(sel.text, sel.done, sel.total, -1, DZero(1), "")
        sm   == SetProgressMessage(progressMessage)
        sp   == SetProgress(sel.progress)
    IN  [m_lastUpdateTimestamp |-> now,
         m_lastEstimateSeconds |-> IF proj THEN est.m_lastEstimateSeconds
                                   ELSE m_lastEstimateSeconds,
         m_progressMessage     |-> sm.m_progressMessage,
         m_lastProgress        |-> sp.m_lastProgress,
         m_progress            |-> sp.m_progress,
         call |-> [NoCall EXCEPT
                     !.emitted = sel.emitted \o sm.emitted \o sp.emitted,
                     !.upd = TRUE, !.phase = sel.phase,
                     !.progress = sel.progress, !.s = s,
                     !.proj = proj,
                     !.rate = IF proj THEN est.rate ELSE DZero(1),
                     !.setProgress = TRUE, !.setMessage = TRUE,
                     !.message = progressMessage]]

\* ------------------------------------------------------------ construction
WalletSignals == {"wallet.syncProgressUpdated", "wallet.nodeConnectionChanged",
                  "wallet.walletError"}

NodeSignals == {"node.syncProgressUpdated"}

\* values a member that the constructor leaves unset can hold
UninitDoubles == {DZero(1), DInt(3)}

\* the object after construction, but for the four counters
Constructed ==
    /\ runLocalNode \in BOOLEAN
    /\ ndebug \in BOOLEAN
    /\ m_progress = DZero(1)
    /\ m_hasLocalNode = runLocalNode
    /\ m_isCreating = FALSE
    /\ m_progressMessage = EmptyMessage
    /\ m_lastProgress \in UninitDoubles
    /\ m_lastEstimateSeconds \in UninitDoubles
    /\ m_lastUpdateTimestamp \in ClockValues
    /\ connections = WalletSignals
                       \cup (IF runLocalNode THEN NodeSignals ELSE {})
    /\ resetConnections = 0
    /\ aborted = FALSE
    /\ last = NoCall

Init ==
    /\ Constructed
    /\ m_nodeTotal = 0
    /\ m_nodeDone = 0
    /\ m_total = 0
    /\ m_done = 0

\* ------------------------------------------------------------------ slots
\* the fields updateProgress() writes, and the record of the call
Updated(u, op, err, after) ==
    /\ m_lastUpdateTimestamp' = u.m_lastUpdateTimestamp
    /\ m_lastEstimateSeconds' = u.m_lastEstimateSeconds
    /\ m_progressMessage' = u.m_progressMessage
    /\ m_lastProgress' = u.m_lastProgress
    /\ m_progress' = u.m_progress
    /\ last' = [u.call EXCEPT !.op = op, !.err = err,
                              !.emitted = u.call.emitted \o after]

OnSyncProgressUpdated(done, total, now) ==
    /\ ~aborted
    /\ "wallet.syncProgressUpdated" \in connections
    /\ m_done' = done
    /\ m_total' = total
    /\ Updated(UpdateProgress(m_nodeDone, m_nodeTotal, done, total, now),
               "onSyncProgressUpdated", "", <<>>)
    /\ UNCHANGED <<m_nodeTotal, m_nodeDone, m_hasLocalNode, m_isCreating,
                   runLocalNode, ndebug, connections, resetConnections,
                   aborted>>

OnNodeSyncProgressUpdated(done, total, now) ==
    /\ ~aborted
    /\ "node.syncProgressUpdated" \in connections
    /\ m_nodeDone' = done
    /\ m_nodeTotal' = total
    /\ Updated(UpdateProgress(done, total, m_done, m_total, now),
               "onNodeSyncProgressUpdated", "", <<>>)
    /\ UNCHANGED <<m_total, m_done, m_hasLocalNode, m_isCreating,
                   runLocalNode, ndebug, connections, resetConnections,
                   aborted>>

OnNodeConnectionChanged(isNodeConnected) ==
    /\ ~aborted
    /\ "wallet.nodeConnectionChanged" \in connections
    /\ last' = [NoCall EXCEPT !.op = "onNodeConnectionChanged"]
    /\ UNCHANGED <<m_progress, m_nodeTotal, m_nodeDone, m_total, m_done,
                   m_hasLocalNode, m_isCreating, m_progressMessage,
                   m_lastProgress, m_lastEstimateSeconds,
                   m_lastUpdateTimestamp, runLocalNode, ndebug, connections,
                   resetConnections, aborted>>

\* the creation-mode switch without the ConnectionRefused case label
CreatingSwitch_RefusedUnmapped(error) ==
    IF ~m_isCreating THEN [to |-> "fall", emitted |-> <<>>]
    ELSE IF error = "NodeProtocolIncompatible"
    THEN [to |-> "return",
          emitted |-> <<WalletError("loading-view-protocol-error", error)>>]
    ELSE IF error \in {"ConnectionAddrInUse", "HostResolvedError"}
    THEN [to |-> "return",
          emitted |-> <<WalletError("loading-view-connection-error", error)>>]
    ELSE IF ndebug THEN [to |-> "fall", emitted |-> <<>>]
    ELSE [to |-> "abort", emitted |-> <<>>]

\* lines 215-236: the switch of the creation mode.  "return" when a case
\* returns, "abort" when the assert fails, "fall" when control leaves the
\* switch (also when m_isCreating is false).
CreatingSwitch(error) ==
    IF ~m_isCreating THEN [to |-> "fall", emitted |-> <<>>]
    ELSE IF error = "NodeProtocolIncompatible"
    THEN [to |-> "return",
          emitted |-> <<WalletError("loading-view-protocol-error", error)>>]
    ELSE IF error \in {"ConnectionAddrInUse", "ConnectionRefused",
                       "HostResolvedError"}
    THEN [to |-> "return",
          emitted |-> <<WalletError("loading-view-connection-error", error)>>]
    ELSE IF ndebug THEN [to |-> "fall", emitted |-> <<>>]
    ELSE [to |-> "abort", emitted |-> <<>>]

\* the second switch without its ConnectionAddrInUse case
PortSwitch_NoPortCase(error) == [to |-> "fall", emitted |-> <<>>]

\* lines 240-247: the second switch
PortSwitch(error) ==
    IF error = "ConnectionAddrInUse"
    THEN [to |-> "return",
          emitted |-> <<WalletError("loading-view-connection-error", error)>>]
    ELSE [to |-> "fall", emitted |-> <<>>]

\* onGetWalletError() without the return statements of its case labels: a
\* walletError is followed by updateProgress() and syncCompleted()
OnGetWalletError_NoEarlyReturn(error, now) ==
    /\ ~aborted
    /\ "wallet.walletError" \in connections
    /\ LET c == CreatingSwitch(error)
           p == PortSwitch(error)
           u == UpdateProgress(m_nodeDone, m_nodeTotal, m_done, m_total, now)
       IN  IF c.to = "abort"
           THEN /\ last' = [NoCall EXCEPT !.op = "onGetWalletError",
                                          !.err = error]
                /\ UNCHANGED <<m_progress, m_progressMessage, m_lastProgress,
                               m_lastEstimateSeconds, m_lastUpdateTimestamp>>
                /\ aborted' = TRUE
           ELSE /\ m_lastUpdateTimestamp' = u.m_lastUpdateTimestamp
                /\ m_lastEstimateSeconds' = u.m_lastEstimateSeconds
                /\ m_progressMessage' = u.m_progressMessage
                /\ m_lastProgress' = u.m_lastProgress
                /\ m_progress' = u.m_progress
                /\ last' = [u.call EXCEPT
                              !.op = "onGetWalletError", !.err = error,
                              !.emitted = c.emitted \o p.emitted
                                            \o u.call.emitted
                                            \o <<SyncCompleted>>]
                /\ aborted' = aborted
    /\ UNCHANGED <<m_nodeTotal, m_nodeDone, m_total, m_done, m_hasLocalNode,
                   m_isCreating, runLocalNode, ndebug, connections,
                   resetConnections>>

OnGetWalletError(error, now) ==
    /\ ~aborted
    /\ "wallet.walletError" \in connections
    /\ LET c == CreatingSwitch(error)
           p == PortSwitch(error)
           quiet == UNCHANGED <<m_progress, m_progressMessage, m_lastProgress,
                                m_lastEstimateSeconds, m_lastUpdateTimestamp>>
       IN  IF c.to = "return"
           THEN /\ last' = [NoCall EXCEPT !.op = "onGetWalletError",
                                          !.err = error,
                                          !.emitted = c.emitted]
                /\ quiet
                /\ aborted' = aborted
           ELSE IF c.to = "abort"
           THEN /\ last' = [NoCall EXCEPT !.op = "onGetWalletError",
                                          !.err = error]
                /\ quiet
                /\ aborted' = TRUE
           ELSE IF p.to = "return"
           THEN /\ last' = [NoCall EXCEPT !.op = "onGetWalletError",
                                          !.err = error,
                                          !.emitted = p.emitted]
                /\ quiet
                /\ aborted' = aborted
           ELSE /\ Updated(UpdateProgress(m_nodeDone, m_nodeTotal, m_done,
                                          m_total, now),
                           "onGetWalletError", error, <<SyncCompleted>>)
                /\ aborted' = aborted
    /\ UNCHANGED <<m_nodeTotal, m_nodeDone, m_total, m_done, m_hasLocalNode,
                   m_isCreating, runLocalNode, ndebug, connections,
                   resetConnections>>

\* resetWallet(): the three signals of the wallet model are disconnected,
\* walletReseted() of AppModel is connected once more (a connect() without
\* Qt::UniqueConnection adds a connection each time), and AppModel is asked
\* to reset the wallet.
ResetWallet ==
    /\ ~aborted
    /\ resetConnections < MaxResets
    /\ connections' = connections \ WalletSignals
    /\ resetConnections' = resetConnections + 1
    /\ last' = [NoCall EXCEPT !.op = "resetWallet"]
    /\ UNCHANGED <<m_progress, m_nodeTotal, m_nodeDone, m_total, m_done,
                   m_hasLocalNode, m_isCreating, m_progressMessage,
                   m_lastProgress, m_lastEstimateSeconds,
                   m_lastUpdateTimestamp, runLocalNode, ndebug, aborted>>

\* AppModel emits walletReseted(): onWalletReseted() runs once per connection
OnWalletReseted ==
    /\ ~aborted
    /\ last' = [NoCall EXCEPT !.op = "walletReseted",
                  !.emitted = [i \in 1 .. resetConnections |-> WalletReseted]]
    /\ UNCHANGED <<m_progress, m_nodeTotal, m_nodeDone, m_total, m_done,
                   m_hasLocalNode, m_isCreating, m_progressMessage,
                   m_lastProgress, m_lastEstimateSeconds,
                   m_lastUpdateTimestamp, runLocalNode, ndebug, connections,
                   resetConnections, aborted>>

\* ---------------------------------------------------------------- setters
\* values the property setters are called with
ProgressValues == {DFin(i, MaxUnits) : i \in 0 .. MaxUnits}

MessageValues == {EmptyMessage,
                  Message("loading-view-download-blocks", 0, 0, -1,
                          DZero(1), ""),
                  Message("loading-view-scaning-utxo", 0, MaxUnits, -1,
                          DZero(1), "")}

CallSetProgress(value) ==
    /\ ~aborted
    /\ LET sp == SetProgress(value)
       IN  /\ m_progress' = sp.m_progress
           /\ m_lastProgress' = sp.m_lastProgress
           /\ last' = [NoCall EXCEPT !.op = "setProgress",
                                     !.progress = value,
                                     !.setProgress = TRUE,
                                     !.emitted = sp.emitted]
    /\ UNCHANGED <<m_nodeTotal, m_nodeDone, m_total, m_done, m_hasLocalNode,
                   m_isCreating, m_progressMessage, m_lastEstimateSeconds,
                   m_lastUpdateTimestamp, runLocalNode, ndebug, connections,
                   resetConnections, aborted>>

CallSetProgressMessage(value) ==
    /\ ~aborted
    /\ LET sm == SetProgressMessage(value)
       IN  /\ m_progressMessage' = sm.m_progressMessage
           /\ last' = [NoCall EXCEPT !.op = "setProgressMessage",
                                     !.setMessage = TRUE,
                                     !.message = value,
                                     !.emitted = sm.emitted]
    /\ UNCHANGED <<m_progress, m_nodeTotal, m_nodeDone, m_total, m_done,
                   m_hasLocalNode, m_isCreating, m_lastProgress,
                   m_lastEstimateSeconds, m_lastUpdateTimestamp, runLocalNode,
                   ndebug, connections, resetConnections, aborted>>

SetIsCreating(value) ==
    /\ ~aborted
    /\ m_isCreating' = value
    /\ last' = [NoCall EXCEPT !.op = "setIsCreating",
                  !.emitted = IF m_isCreating # value
                              THEN <<IsCreatingChanged>> ELSE <<>>]
    /\ UNCHANGED <<m_progress, m_nodeTotal, m_nodeDone, m_total, m_done,
                   m_hasLocalNode, m_progressMessage, m_lastProgress,
                   m_lastEstimateSeconds, m_lastUpdateTimestamp, runLocalNode,
                   ndebug, connections, resetConnections, aborted>>

\* ---------------------------------------------------------- specification
\* The view model driven by its sources, the mode flag and the reset.
Next ==
    \/ \E done \in Dones, total \in Totals, now \in ClockValues :
           OnSyncProgressUpdated(done, total, now)
    \/ \E done \in Dones, total \in Totals, now \in ClockValues :
           OnNodeSyncProgressUpdated(done, total, now)
    \/ \E b \in BOOLEAN : OnNodeConnectionChanged(b)
    \/ \E error \in ErrorTypes, now \in ClockValues :
           OnGetWalletError(error, now)
    \/ ResetWallet
    \/ OnWalletReseted
    \/ \E value \in BOOLEAN : SetIsCreating(value)

Spec == Init /\ [][Next]_vars

\* The property setters called directly, in any order.
SetterNext ==
    \/ \E value \in ProgressValues : CallSetProgress(value)
    \/ \E value \in MessageValues : CallSetProgressMessage(value)
    \/ \E value \in BOOLEAN : SetIsCreating(value)

\* no assert is reached: one build stands for both
SetterInit == Init /\ ndebug

SetterSpec == SetterInit /\ [][SetterNext]_vars

\* updateProgress() as a function of the counters: it is applied once to
\* every combination of counters (those of the node only when a local node
\* runs, as no other instance is connected to the node).
SelectorInit ==
    /\ Constructed
    /\ ndebug
    /\ m_nodeTotal \in (IF runLocalNode THEN SelTotals ELSE {0})
    /\ m_nodeDone \in (IF runLocalNode THEN SelDones ELSE {0})
    /\ m_total \in SelTotals
    /\ m_done \in SelDones

CallUpdateProgress(now) ==
    /\ ~last.upd
    /\ Updated(UpdateProgress(m_nodeDone, m_nodeTotal, m_done, m_total, now),
               "updateProgress", "", <<>>)
    /\ UNCHANGED <<m_nodeTotal, m_nodeDone, m_total, m_done, m_hasLocalNode,
                   m_isCreating, runLocalNode, ndebug, connections,
                   resetConnections, aborted>>

SelectorNext == \E now \in ClockValues : CallUpdateProgress(now)

SelectorSpec == SelectorInit /\ [][SelectorNext]_vars

\* The two progress sources delivering arbitrary counters, negative ones
\* and done > total included, all within the same second of the clock.
CounterNext ==
    \/ \E done \in SelDones, total \in SelTotals :
           OnSyncProgressUpdated(done, total, 0)
    \/ \E done \in SelDones, total \in SelTotals :
           OnNodeSyncProgressUpdated(done, total, 0)

\* no assert is reached: one build stands for both
CounterInit == Init /\ ndebug

CounterSpec == CounterInit /\ [][CounterNext]_vars

\* getEstimateStr() as a function of its arguments and of the two members
\* it reads: it is applied once to every combination of them.  The members
\* it does not read are as after construction, but for m_progress, which
\* has advanced beyond m_lastProgress.
\* Values of m_lastProgress, the progress exposed before the latest advance.
LastProgressValues == {DZero(1), DFin(1, 4), DFin(1, 2)}

\* Values of m_lastEstimateSeconds, the estimate of the call before: a
\* quotient of seconds by a difference of two progress values, which is
\* negative for a negative difference, an infinity or a NaN for none.
LastEstimateValues == {DZero(1), DInt(10), DInt(100), DInt(-10), DInf(1),
                       DNaN}

\* values of secondsFromLastUpdate, in 0 .. kMaxEstimate
ElapsedValues == {0, 10, 50, 200, kMaxEstimate}

\* values of progress, in 0 < progress <= 1
RawProgressValues == {DFin(1, 4), DFin(1, 2), DFin(3, 4), DInt(1)}

EstimatorInit ==
    /\ runLocalNode = FALSE
    /\ ndebug = TRUE
    /\ m_hasLocalNode = FALSE
    /\ m_isCreating = FALSE
    /\ m_nodeTotal = 0
    /\ m_nodeDone = 0
    /\ m_total = 0
    /\ m_done = 0
    /\ m_lastProgress \in LastProgressValues
    /\ m_progress = DInt(1)
    /\ m_lastEstimateSeconds \in LastEstimateValues
    /\ m_lastUpdateTimestamp = 0
    /\ m_progressMessage = EmptyMessage
    /\ connections = WalletSignals
    /\ resetConnections = 0
    /\ aborted = FALSE
    /\ last = NoCall

\* getEstimateStr(secondsFromLastUpdate, progress); the value and the units
\* of the string it returns are recorded in last.message
CallGetEstimateStr(secondsFromLastUpdate, progress) ==
    /\ last.op = ""
    /\ LET est == GetEstimateStr(secondsFromLastUpdate, progress)
       IN  /\ m_lastEstimateSeconds' = est.m_lastEstimateSeconds
           /\ last' = [NoCall EXCEPT
                         !.op = "getEstimateStr",
                         !.s = secondsFromLastUpdate,
                         !.progress = progress,
                         !.proj = TRUE,
                         !.rate = est.rate,
                         !.message = Message("", 0, 0, -1, est.value,
                                             est.units)]
    /\ UNCHANGED <<m_progress, m_nodeTotal, m_nodeDone, m_total, m_done,
                   m_hasLocalNode, m_isCreating, m_progressMessage,
                   m_lastProgress, m_lastUpdateTimestamp, runLocalNode,
                   ndebug, connections, resetConnections, aborted>>

EstimatorNext ==
    \E secondsFromLastUpdate \in ElapsedValues,
       progress \in RawProgressValues :
        CallGetEstimateStr(secondsFromLastUpdate, progress)

EstimatorSpec == EstimatorInit /\ [][EstimatorNext]_vars

\* ----------------------------------------------------------------- claims
\* number of signals named name among the signals a call emitted
Count(name, emitted) ==
    Cardinality({i \in DOMAIN emitted : emitted[i].sig = name})

ProgressOps == {"onSyncProgressUpdated", "onNodeSyncProgressUpdated"}

SourceOps == ProgressOps \cup {"onGetWalletError", "onNodeConnectionChanged"}

\* C1: over every step of the view model (node-progress, scan-progress and
\* error events in any order, with any counters) the exposed progress
\* fraction after the step is greater than or equal to the one before it.
C1_FractionNeverDecreases ==
    [][DGt(m_progress', m_progress) \/ DEq(m_progress', m_progress)]_vars

\* C1 witness: a progress event whose raw fraction lies below the exposed
\* fraction has been handled.
C1_Witness ==
    /\ last.op \in ProgressOps
    /\ last.upd
    /\ DLt(last.progress, m_progress)

\* C2 (as claimed): once resetWallet() has been invoked, no step is the
\* handling of an event of a source: the fraction, the message and the
\* estimate state are left as they were and nothing is emitted.
C2_NoSourceEventAfterReset ==
    [][(resetConnections > 0 /\ last'.op \in SourceOps)
         => /\ UNCHANGED <<m_progress, m_progressMessage, m_lastProgress,
                           m_lastEstimateSeconds, m_lastUpdateTimestamp>>
            /\ last'.emitted = <<>>]_vars

\* C3 (as claimed): whenever getEstimateStr() has run for a raw fraction,
\* the divisor progress - m_lastProgress was not zero.
C3_ProjectionRateNonZero ==
    last.proj => last.rate.k # "zero"

CreationMapped == {"NodeProtocolIncompatible", "ConnectionAddrInUse",
                   "ConnectionRefused", "HostResolvedError"}

\* C4 (as claimed): in creation mode an error of a kind outside the four
\* mapped kinds ends with an Unclassified error notification that carries
\* the description, and never with an abort.
C4_UnclassifiedIsSurfaced ==
    (last.op = "onGetWalletError" /\ m_isCreating
       /\ last.err \notin CreationMapped)
      => /\ ~aborted
         /\ \E i \in DOMAIN last.emitted :
               /\ last.emitted[i].sig = "walletError"
               /\ last.emitted[i].title = "Unclassified"
               /\ last.emitted[i].desc = <<"ErrorString", last.err>>

\* C5: in creation mode NodeProtocolIncompatible emits exactly one
\* walletError titled "Incompatible peer" and ConnectionAddrInUse,
\* ConnectionRefused and HostResolvedError emit exactly one walletError
\* titled "Connection error", each with the description of that kind; no
\* completion signal is emitted and updateProgress() does not run.
C5_CreationModeMapping ==
    (last.op = "onGetWalletError" /\ m_isCreating
       /\ last.err \in CreationMapped)
      => /\ last.emitted =
               <<[sig   |-> "walletError",
                  title |-> IF last.err = "NodeProtocolIncompatible"
                            THEN "loading-view-protocol-error"
                            ELSE "loading-view-connection-error",
                  desc  |-> <<"ErrorString", last.err>>]>>
         /\ ~last.upd

\* C5 witness: ConnectionRefused has been handled in creation mode.
C5_Witness ==
    /\ last.op = "onGetWalletError"
    /\ m_isCreating
    /\ last.err = "ConnectionRefused"
    /\ Len(last.emitted) = 1

OutcomeSignals == {"walletError", "syncCompleted", "syncCompletedWithError"}

\* C7 (as claimed): the handling of an error event emits exactly one signal
\* out of walletError, syncCompleted and syncCompletedWithError.
C7_ExactlyOneOutcome ==
    last.op = "onGetWalletError"
      => Cardinality({i \in DOMAIN last.emitted :
                        last.emitted[i].sig \in OutcomeSignals}) = 1

\* the download phase is the active one, with the counters of the state
DownloadActive ==
    runLocalNode /\ (m_nodeTotal = 0 \/ m_nodeDone < m_nodeTotal)

\* done/total limited to 1, or 0 when total is not positive
ClampedRatio(done, total) ==
    IF total > 0
    THEN (IF done < total THEN DFin(done, total) ELSE DInt(1))
    ELSE DZero(1)

\* C8: after every progress recomputation the phase is Downloading exactly
\* when a local node runs and (node total = 0 or node done < node total),
\* with raw fraction min(1, node done / node total) if node total > 0 else
\* 0; otherwise the phase is Scanning with raw fraction
\* min(1, done / total) if total > 0 else 0.
C8_PhaseSelection ==
    last.upd
      => IF DownloadActive
         THEN /\ last.phase = "Downloading"
              /\ last.progress = ClampedRatio(m_nodeDone, m_nodeTotal)
         ELSE /\ last.phase = "Scanning"
              /\ last.progress = ClampedRatio(m_done, m_total)

\* C8 witness: with a local node and the node's download complete, a scan
\* report strictly between nothing and everything selects Scanning with a
\* fraction strictly between 0 and 1.
C8_Witness ==
    /\ last.upd
    /\ runLocalNode
    /\ m_nodeTotal > 0
    /\ m_nodeDone = m_nodeTotal
    /\ last.phase = "Scanning"
    /\ DGt(last.progress, DZero(1))
    /\ DLt(last.progress, DInt(1))

\* C9: a node-progress or scan-progress event emits syncCompleted once when,
\* with the counters after the event, the scan phase is selected and
\* done >= total, and does not emit it otherwise.
C9_CompletionOnProgressEvent ==
    last.op \in ProgressOps
      => Count("syncCompleted", last.emitted)
           = (IF ~DownloadActive /\ m_done >= m_total THEN 1 ELSE 0)

\* C9 witness: a scan report with done = total > 0 has been handled and
\* syncCompleted was emitted.
C9_Witness ==
    /\ last.op = "onSyncProgressUpdated"
    /\ m_total > 0
    /\ m_done = m_total
    /\ Count("syncCompleted", last.emitted) = 1

\* C10: a call of setProgressMessage(x) emits progressMessageChanged once
\* when x differs from the stored message and not at all when it is equal,
\* and a call of setProgress(v) emits progressChanged once when v is
\* strictly greater than the stored progress and not at all otherwise.
C10_Deduplication ==
    [][/\ last'.setMessage
            => Count("progressMessageChanged", last'.emitted)
                 = (IF last'.message # m_progressMessage THEN 1 ELSE 0)
       /\ last'.setProgress
            => Count("progressChanged", last'.emitted)
                 = (IF DGt(last'.progress, m_progress) THEN 1 ELSE 0)]_vars

\* C10 witness: setProgressMessage() has been called with the message that
\* an earlier call had stored, and emitted nothing.
C10_Witness ==
    /\ last.op = "setProgressMessage"
    /\ last.message # EmptyMessage
    /\ last.message = m_progressMessage
    /\ last.emitted = <<>>

\* C11 (as claimed): an updateProgress() of a progress event whose raw
\* progress is less than or equal to m_progress leaves m_progress,
\* m_lastProgress, m_lastEstimateSeconds and the estimate shown in the
\* message as they were, does not run getEstimateStr() and does not emit
\* progressChanged.  (The text of the phase, which follows the counters,
\* and with it progressMessageChanged are left out.)
C11_NoOpBelowRatchet ==
    [][(/\ last'.op \in ProgressOps
        /\ last'.upd
        /\ (DLt(last'.progress, m_progress)
              \/ DEq(last'.progress, m_progress)))
         => /\ UNCHANGED <<m_progress, m_lastProgress, m_lastEstimateSeconds>>
            /\ m_progressMessage'.value = m_progressMessage.value
            /\ m_progressMessage'.units = m_progressMessage.units
            /\ ~last'.proj
            /\ Count("progressChanged", last'.emitted) = 0]_vars

\* C12 (as claimed): when a progress event advances m_progress, the divisor
\* of its projection is the raw progress minus the m_progress of before the
\* event.  (Stated for an advance after an earlier one, so that
\* m_lastProgress has been written.)
C12_RateFromExposedFraction ==
    [][(/\ last'.op \in ProgressOps
        /\ last'.proj
        /\ DGt(m_progress, DZero(1))
        /\ DGt(last'.progress, m_progress))
         => DEq(last'.rate, DSub(last'.progress, m_progress))]_vars

\* C13 (as claimed): the elapsed seconds of an updateProgress() are the new
\* m_lastUpdateTimestamp (the clock reading of the call) minus the old one,
\* clamped to 0 .. kMaxEstimate: 0 when the clock reads earlier than the
\* old timestamp.  (Stated for an update that follows an update, so that
\* m_lastUpdateTimestamp has been written.)
C13_ElapsedClamped ==
    [][(last.upd /\ last'.upd)
         => LET diff == m_lastUpdateTimestamp' - m_lastUpdateTimestamp
            IN  last'.s = IF diff < 0 THEN 0
                          ELSE IF diff > kMaxEstimate THEN kMaxEstimate
                          ELSE diff]_vars

\* C14 (as claimed): an estimate that getEstimateStr() stores in
\* m_lastEstimateSeconds is not zero.  (Stated for an update that follows
\* an update, so that m_lastUpdateTimestamp has been written.)
C14_StoredEstimateNonZero ==
    [][(last.upd /\ last'.proj) => m_lastEstimateSeconds'.k # "zero"]_vars

\* C15: getEstimateStr() stores in m_lastEstimateSeconds the mean of the raw
\* estimate and the estimate of before when their ratio is greater than 2,
\* and the raw estimate otherwise, also at a ratio of exactly 2: an
\* estimate of before of 10 and a raw one of 50 store 30, one of before of
\* 100 and a raw one of 200 store 200.
C15_Smoothing ==
    [][last'.op = "getEstimateStr"
         => LET raw == DDiv(DInt(last'.s),
                            DSub(last'.progress, m_lastProgress))
                ratio == DDiv(raw, m_lastEstimateSeconds)
            IN  /\ m_lastEstimateSeconds'
                     = IF DGt(ratio, DInt(2))
                       THEN DDiv(DAdd(raw, m_lastEstimateSeconds), DInt(2))
                       ELSE raw
                /\ (m_lastEstimateSeconds = DInt(10) /\ raw = DInt(50))
                      => m_lastEstimateSeconds' = DInt(30)
                /\ (m_lastEstimateSeconds = DInt(100) /\ raw = DInt(200))
                      => m_lastEstimateSeconds' = DInt(200)]_vars

\* C15 witness: getEstimateStr() has stored 30 for a raw estimate of 50
\* seconds (50 seconds for the whole of the progress).
C15_Witness ==
    /\ last.op = "getEstimateStr"
    /\ last.s = 50
    /\ last.rate = DInt(1)
    /\ m_lastEstimateSeconds = DInt(30)

\* C16 (as claimed): the value getEstimateStr() renders is the ceiling of
\* the stored estimate over 60, in minutes, when the estimate is above 60,
\* else the ceiling of the estimate, in seconds, when it is above 0, else 1
\* second; it is an integer of at least 1 for every stored estimate.
C16_RenderedIntegerAtLeastOne ==
    last.op = "getEstimateStr"
      => LET est == m_lastEstimateSeconds
             value == last.message.value
             units == last.message.units
         IN  /\ IF DGt(est, DInt(kSecondsInMinute))
                THEN /\ value = DCeil(DDiv(est, DInt(kSecondsInMinute)))
                     /\ units = "loading-view-estimate-minutes"
                ELSE /\ value = IF DGt(est, DZero(1)) THEN DCeil(est)
                                ELSE DInt(1)
                     /\ units = "loading-view-estimate-seconds"
             /\ value.k = "fin"
             /\ value.d = 1
             /\ value.n >= 1

\* C17: the handling of an error that emits walletError leaves the four
\* counters, m_progress, the message, m_lastProgress, m_lastEstimateSeconds
\* and m_lastUpdateTimestamp as they were.
C17_RaisedErrorLeavesPipeline ==
    [][(/\ last'.op = "onGetWalletError"
        /\ Count("walletError", last'.emitted) > 0)
         => UNCHANGED <<m_nodeTotal, m_nodeDone, m_total, m_done, m_progress,
                        m_progressMessage, m_lastProgress,
                        m_lastEstimateSeconds, m_lastUpdateTimestamp>>]_vars

\* C17 witness: a walletError has been emitted in normal mode, after the
\* progress had advanced at a later clock reading.
C17_Witness ==
    /\ last.op = "onGetWalletError"
    /\ Count("walletError", last.emitted) = 1
    /\ ~m_isCreating
    /\ DGt(m_progress, DZero(1))
    /\ m_lastUpdateTimestamp = kMaxEstimate + 1

\* C18 (as claimed): a progress event that follows the emission of a
\* walletError with the title of a protocol error emits neither
\* progressChanged nor syncCompleted.
C18_FatalTerminatesAttempt ==
    [][(/\ last.op = "onGetWalletError"
        /\ \E i \in DOMAIN last.emitted :
               /\ last.emitted[i].sig = "walletError"
               /\ last.emitted[i].title = "loading-view-protocol-error"
        /\ last'.op \in ProgressOps)
         => /\ Count("progressChanged", last'.emitted) = 0
            /\ Count("syncCompleted", last'.emitted) = 0]_vars

\* C19: m_progress lies in [0, 1] in every state, whatever counters the
\* sources deliver (done > total, total = 0, negative done or total).
C19_FractionInUnitInterval ==
    /\ DGt(m_progress, DZero(1)) \/ DEq(m_progress, DZero(1))
    /\ DLt(m_progress, DInt(1)) \/ DEq(m_progress, DInt(1))

\* C19 witness: the scan has reported more done than the total, both
\* positive, and the progress has advanced.
C19_Witness ==
    /\ last.op = "onSyncProgressUpdated"
    /\ m_total > 0
    /\ m_done > m_total
    /\ DGt(m_progress, DZero(1))

\* C20 (as claimed): a walletReseted() of AppModel makes the object emit
\* walletReseted once when resetWallet() has been invoked, however often,
\* and not at all when it has not.
C20_OneWalletResetPerSignal ==
    last.op = "walletReseted"
      => Count("walletReseted", last.emitted)
           = IF resetConnections > 0 THEN 1 ELSE 0
====
